---- MODULE Spec2Model ----
(***************************************************************************)
(* A model of the Empathy Engine: the voice mapper (voice_mapper.py), the  *)
(* emotion detector (emotion_detector.py), the TTS dispatcher              *)
(* (tts_engine.py), the orchestrator (engine.py) and the Flask endpoint    *)
(* (web/app.py).                                                           *)
(*                                                                         *)
(* Numbers.  The program computes with Python floats.  The model computes  *)
(* with exact rationals written as integer numerators over an explicit     *)
(* denominator:                                                            *)
(*   - an intensity is num/den                                             *)
(*   - pitch targets, volume deltas and baselines are in hundredths, as    *)
(*     they are written in the source (1.35 is 135)                        *)
(*   - a VoiceParams carries pitch and volume as numerators over its       *)
(*     field den = 100 * (the intensity's denominator)                     *)
(*   - a compound score is c/CompoundSteps, an intensity computed from it  *)
(*     is a numerator over 10*CompoundSteps                                *)
(***************************************************************************)
EXTENDS Integers, Sequences, FiniteSets, TLC

(* ------------------------------ bounds -------------------------------- *)
\* intensities num/den are drawn for every den in 1..MaxDen
MaxDen == 10
\* compound scores are drawn from -CompoundSteps..CompoundSteps over CompoundSteps
CompoundSteps == 100

(* ------------------------- voice_mapper.py ---------------------------- *)
BASELINE_RATE == 200
BASELINE_PITCH == 100
BASELINE_VOLUME == 85

\* emotion |-> <<rate_delta, pitch_mult (hundredths), vol_delta (hundredths)>>
EMOTION_PROFILE ==
    [ joy         |-> << 60, 135,  15>>,
      sadness     |-> <<-50,  78, -15>>,
      anger       |-> << 40, 122,  15>>,
      surprise    |-> << 70, 145,  10>>,
      fear        |-> << 50, 118, -10>>,
      disgust     |-> <<-20,  88,  -5>>,
      neutral     |-> <<  0, 100,   0>>,
      inquisitive |-> << 15, 120,   5>>,
      concerned   |-> <<-15,  92,  -5>>,
      excited     |-> << 65, 140,  15>>,
      calm        |-> <<-30,  90, -10>> ]

\* VoiceMapper.__init__: the three baselines of a mapper instance
VoiceMapper(baseline_rate, baseline_pitch, baseline_volume) ==
    [ baseline_rate   |-> baseline_rate,
      baseline_pitch  |-> baseline_pitch,
      baseline_volume |-> baseline_volume ]

\* max(0.0, min(1.0, intensity)) on the numerator of num/den
ClampIntensity(num, den) ==
    IF num < 0 THEN 0 ELSE IF num > den THEN den ELSE num

ProfileZeroDefault(emotion) ==
    IF emotion \in DOMAIN EMOTION_PROFILE
    THEN EMOTION_PROFILE[emotion]
    ELSE <<0, 0, 0>>

\* EMOTION_PROFILE.get(emotion, EMOTION_PROFILE["neutral"])
Profile(emotion) ==
    IF emotion \in DOMAIN EMOTION_PROFILE
    THEN EMOTION_PROFILE[emotion]
    ELSE EMOTION_PROFILE["neutral"]

IntRound(a, b) ==
    IF a >= 0 THEN (2 * a + b) \div (2 * b) ELSE -((2 * (-a) + b) \div (2 * b))

\* Python's int() of the rational a/b (b > 0): truncation toward zero
int(a, b) ==
    IF a >= 0 THEN a \div b ELSE -((-a) \div b)

ClampVolumeNoFloor(v, den) ==
    IF v > 100 * den THEN 100 * den ELSE v

\* max(0.1, min(1.0, v)) on a numerator of hundredths over den
ClampVolume(v, den) ==
    LET capped == IF v > 100 * den THEN 100 * den ELSE v
    IN  IF capped < 10 * den THEN 10 * den ELSE capped

PitchTowardDelta(baseline_pitch, pitch_mult, i, den) ==
    baseline_pitch * den + pitch_mult * i

\* baseline_pitch + (pitch_mult - baseline_pitch) * intensity, over 100*den
Pitch(baseline_pitch, pitch_mult, i, den) ==
    baseline_pitch * den + (pitch_mult - baseline_pitch) * i

\* VoiceMapper.map(emotion, intensity) with intensity = num/den
map(self, emotion, num, den) ==
    LET i       == ClampIntensity(num, den)
        profile == Profile(emotion)
    IN  [ rate   |-> int(self.baseline_rate * den + profile[1] * i, den),
          pitch  |-> Pitch(self.baseline_pitch, profile[2], i, den),
          volume |-> ClampVolume(self.baseline_volume * den + profile[3] * i, den),
          den    |-> 100 * den ]

(* ----------------------- emotion_detector.py -------------------------- *)
EMOTION_CATEGORIES ==
    {"joy", "sadness", "anger", "surprise", "fear", "disgust", "neutral"}

\* HuggingFace model labels -> canonical labels
HF_LABEL_MAP ==
    [ joy      |-> "joy",
      sadness  |-> "sadness",
      anger    |-> "anger",
      surprise |-> "surprise",
      fear     |-> "fear",
      disgust  |-> "disgust",
      neutral  |-> "neutral" ]

VADER_POLARITY_MAP ==
    [ positive |-> "joy", negative |-> "sadness", neutral |-> "neutral" ]

None == "None"

\* EmotionDetector.__init__(use_hf), with HF_AVAILABLE (the import of
\* transformers succeeded) and load_ok (hf_pipeline(...) does not throw).
\* attempted: whether hf_pipeline was called at all.
EmotionDetector(use_hf, hf_available, load_ok) ==
    [ hf_classifier |-> IF use_hf /\ hf_available /\ load_ok THEN "pipeline" ELSE None,
      attempted     |-> use_hf /\ hf_available ]

vader_polarity_strict(compound) ==
    IF compound * 20 > CompoundSteps THEN "positive"
    ELSE IF compound * 20 < -CompoundSteps THEN "negative"
    ELSE "neutral"

\* _vader_polarity: compound >= 0.05, compound <= -0.05 (0.05 = 1/20)
vader_polarity(compound) ==
    IF compound * 20 >= CompoundSteps THEN "positive"
    ELSE IF compound * 20 <= -CompoundSteps THEN "negative"
    ELSE "neutral"

Abs(x) == IF x < 0 THEN -x ELSE x

compute_intensity_signed(compound) ==
    IF compound * 12 < 10 * CompoundSteps THEN compound * 12 ELSE 10 * CompoundSteps

\* _compute_intensity: min(abs(compound) * 1.2, 1.0), over 10*CompoundSteps
compute_intensity(compound) ==
    IF Abs(compound) * 12 < 10 * CompoundSteps
    THEN Abs(compound) * 12
    ELSE 10 * CompoundSteps

\* _hf_analyse on what the classifier returned for the text: a list of
\* {label, score}.  scores is the dict built from it, top_label is
\* max(scores, key=scores.get): the first label, in list order, whose score
\* no other exceeds.
hf_analyse(results) ==
    LET scores == { <<results[k].label, results[k].score>> : k \in DOMAIN results }
        top    == CHOOSE k \in DOMAIN results :
                     /\ \A j \in DOMAIN results : results[j].score <= results[k].score
                     /\ \A j \in DOMAIN results :
                            results[j].score = results[k].score => k <= j
    IN  [ scores |-> scores, top_label |-> results[top].label ]

NormalizeCoerce(granular_label) ==
    IF granular_label \in DOMAIN HF_LABEL_MAP
    THEN HF_LABEL_MAP[granular_label]
    ELSE "neutral"

\* HF_LABEL_MAP.get(granular_label, granular_label)
Normalize(granular_label) ==
    IF granular_label \in DOMAIN HF_LABEL_MAP
    THEN HF_LABEL_MAP[granular_label]
    ELSE granular_label

\* what the classifier does when called on a text: it throws
Raises == [raises |-> TRUE, results |-> <<>>]

\* the exception detect lets through
Raised == [raised |-> TRUE]

\* EmotionDetector.detect(text): compound is the VADER compound score of the
\* text, hf is what self.hf_classifier(text) does (Raises, or the list it
\* returns, as a record); hf is not looked at when there is no classifier.
detect(self, compound, hf) ==
    LET intensity == compute_intensity(compound)
    IN  IF self.hf_classifier # None
        THEN IF hf.raises
             THEN Raised
             ELSE LET a == hf_analyse(hf.results)
                  IN  [ raised          |-> FALSE,
                        primary_emotion |-> Normalize(a.top_label),
                        intensity       |-> intensity,
                        granular_label  |-> a.top_label,
                        compound        |-> compound,
                        hf_scores       |-> a.scores ]
        ELSE LET primary_emotion == VADER_POLARITY_MAP[vader_polarity(compound)]
             IN  [ raised          |-> FALSE,
                   primary_emotion |-> primary_emotion,
                   intensity       |-> intensity,
                   granular_label  |-> primary_emotion,
                   compound        |-> compound,
                   hf_scores       |-> {} ]

(* ---------------------------- tts_engine.py ---------------------------- *)
\* str.lower() on the engine names a caller may pass
Lower(backend) ==
    CASE backend = "GTTS"      -> "gtts"
      [] backend = "Pyttsx3"   -> "pyttsx3"
      [] backend = "MacOS_Say" -> "macos_say"
      [] OTHER                 -> backend

\* TTSEngine.__init__(backend) on a machine where _is_macos() is is_macos:
\* the value stored in self.backend
TTSEngine(backend, is_macos) ==
    IF backend = "auto"
    THEN IF is_macos THEN "macos_say" ELSE "pyttsx3"
    ELSE Lower(backend)

\* the extension of a generated output path
Ext(backend) == IF backend = "gtts" THEN "mp3" ELSE "wav"

\* A path is a stem and the extensions that follow it: "out.txt.wav" is
\* [stem |-> <<"out">>, exts |-> <<"txt", "wav">>].
EndsWith(path, ext) ==
    path.exts # <<>> /\ path.exts[Len(path.exts)] = ext

\* path + "." + ext
AddExt(path, ext) == [path EXCEPT !.exts = Append(path.exts, ext)]

\* path.rsplit(".", 1)[0]
RsplitDot(path) ==
    IF path.exts = <<>>
    THEN path
    ELSE [path EXCEPT !.exts = SubSeq(path.exts, 1, Len(path.exts) - 1)]

\* output_path=None, and the path of a call that returned none
NoPath == [stem |-> <<>>, exts |-> <<>>]

\* the uuids uuid4() may return, each <<its first 8 hex digits, the other 24>>
Uuids == {"a1", "b2"} \X {"x", "y"}

\* uuid.uuid4().hex[:8]
Hex8(uuid) == uuid[1]

\* OUTPUT_DIR / f"empathy_{uuid.uuid4().hex[:8]}{ext}"
Generated(uuid, ext) ==
    [stem |-> <<"empathy_", Hex8(uuid)>>, exts |-> <<ext>>]

\* how an external synthesis process may end
Outcomes == {"ok", "fails", "timeout"}

\* what a backend gives back: the path it returns (ok) or the exception it
\* raises (error), the backend whose process produced the audio (via), the
\* paths it wrote to (written) and deleted (removed), and how many times
\* the pyttsx3 subprocess (sub_runs) and the say command (say_runs) were run
Done(via, path, written, removed, sub_runs, say_runs) ==
    [ ok |-> TRUE, via |-> via, path |-> path, error |-> None,
      written |-> written, removed |-> removed,
      sub_runs |-> sub_runs, say_runs |-> say_runs ]

Error(error, written, sub_runs, say_runs) ==
    [ ok |-> FALSE, via |-> None, path |-> NoPath, error |-> error,
      written |-> written, removed |-> {},
      sub_runs |-> sub_runs, say_runs |-> say_runs ]

\* a backend's result with one more pyttsx3 subprocess run counted
AfterSub(result) == [result EXCEPT !.sub_runs = result.sub_runs + 1]

\* _synthesize_macos_say: coerce the extension, run say into the .aiff
\* path (ok; fails: non-zero exit or not found, RuntimeError; timeout:
\* TimeoutExpired, not caught), then afconvert into the output path
\* (convert = "ok": the .aiff is removed; anything else: the .aiff is
\* returned).  The pydub volume step rewrites the returned file in place.
synthesize_macos_say(say, convert, output_path) ==
    LET out  == IF EndsWith(output_path, "aiff")
                THEN AddExt(RsplitDot(output_path), "wav")
                ELSE IF ~(EndsWith(output_path, "wav") \/ EndsWith(output_path, "mp3"))
                     THEN AddExt(output_path, "wav")
                     ELSE output_path
        aiff == AddExt(RsplitDot(out), "aiff")
    IN  IF say = "fails" THEN Error("RuntimeError: say failed", {}, 0, 1)
        ELSE IF say = "timeout" THEN Error("TimeoutExpired", {}, 0, 1)
        ELSE IF convert = "ok"
             THEN Done("macos_say", out, {aiff, out}, {aiff}, 0, 1)
             ELSE Done("macos_say", aiff, {aiff}, {}, 0, 1)

synthesize_pyttsx3_always_fallback(sub, say, convert, is_macos, output_path) ==
    LET out == IF ~(\/ EndsWith(output_path, "wav")
                    \/ EndsWith(output_path, "mp3")
                    \/ EndsWith(output_path, "aiff"))
               THEN AddExt(output_path, "aiff")
               ELSE output_path
    IN  IF sub = "ok" THEN Done("pyttsx3", out, {out}, {}, 1, 0)
        ELSE IF is_macos
             THEN AfterSub(synthesize_macos_say(say, convert, out))
             ELSE Error("RuntimeError: pyttsx3 timed out", {}, 1, 0)

\* _synthesize_pyttsx3: coerce the extension, run the pyttsx3 subprocess
\* (ok; fails: non-zero exit, RuntimeError; timeout); after a timeout, on
\* macOS, return what _synthesize_macos_say gives, elsewhere RuntimeError.
synthesize_pyttsx3(sub, say, convert, is_macos, output_path) ==
    LET out == IF ~(\/ EndsWith(output_path, "wav")
                    \/ EndsWith(output_path, "mp3")
                    \/ EndsWith(output_path, "aiff"))
               THEN AddExt(output_path, "aiff")
               ELSE output_path
    IN  IF sub = "ok" THEN Done("pyttsx3", out, {out}, {}, 1, 0)
        ELSE IF sub = "fails" THEN Error("RuntimeError: pyttsx3 failed", {}, 1, 0)
        ELSE IF is_macos
             THEN AfterSub(synthesize_macos_say(say, convert, out))
             ELSE Error("RuntimeError: pyttsx3 timed out", {}, 1, 0)

\* _synthesize_gtts: coerce the extension to .mp3; the cloud call (or the
\* import of gtts) succeeds or throws
synthesize_gtts(cloud, output_path) ==
    LET out == IF ~EndsWith(output_path, "mp3")
               THEN AddExt(RsplitDot(output_path), "mp3")
               ELSE output_path
    IN  IF cloud = "ok"
        THEN Done("gtts", out, {out}, {}, 0, 0)
        ELSE Error("gTTS error", {}, 0, 0)

\* the outcomes of the external processes during one synthesize call
Environments ==
    [sub : Outcomes, say : Outcomes, convert : {"ok", "fails"}, cloud : {"ok", "fails"}]

\* TTSEngine.synthesize(text, params, output_path) of an engine whose
\* self.backend is backend, alone in its thread: uuid is what uuid4() gives
\* when a name is generated, env how the external processes end
synthesize(backend, output_path, uuid, env, is_macos) ==
    LET path == IF output_path = NoPath
                THEN Generated(uuid, Ext(backend))
                ELSE output_path
    IN  IF backend = "macos_say"
        THEN synthesize_macos_say(env.say, env.convert, path)
        ELSE IF backend = "pyttsx3"
        THEN synthesize_pyttsx3(env.sub, env.say, env.convert, is_macos, path)
        ELSE IF backend = "gtts"
        THEN synthesize_gtts(env.cloud, path)
        ELSE Error("ValueError: Unknown TTS backend", {}, 0, 0)

(* ------------------------------ engine.py ----------------------------- *)
\* the mapper the pipeline builds: VoiceMapper()
DefaultMapper == VoiceMapper(BASELINE_RATE, BASELINE_PITCH, BASELINE_VOLUME)

(* ------------------------------ web/app.py ---------------------------- *)
\* the worker threads of the server that handle requests concurrently
Threads == {"t1", "t2"}

\* a request text is a sequence of characters
Whitespace == {" ", "\t", "\n"}

RECURSIVE lstrip(_)
lstrip(text) ==
    IF text # <<>> /\ Head(text) \in Whitespace THEN lstrip(Tail(text)) ELSE text

RECURSIVE rstrip(_)
rstrip(text) ==
    IF text # <<>> /\ text[Len(text)] \in Whitespace
    THEN rstrip(SubSeq(text, 1, Len(text) - 1))
    ELSE text

\* str.strip()
strip(text) == rstrip(lstrip(text))

\* the JSON bodies a client may send: text and engine are optional
Texts == { <<>>, <<" ", "\t">>, <<"h", "i">>, <<"\n", "h", "i", " ">> }
EngineNames == {"pyttsx3", "macos_say", "gtts", "auto"}
Requests ==
    [text : Texts, engine : EngineNames] \cup [text : Texts] \cup [engine : EngineNames]

RequestTextUnstripped(data) == IF "text" \in DOMAIN data THEN data.text ELSE <<>>

\* data.get("text", "").strip()
RequestText(data) == strip(IF "text" \in DOMAIN data THEN data.text ELSE <<>>)

\* data.get("engine", "pyttsx3")
RequestEngine(data) == IF "engine" \in DOMAIN data THEN data.engine ELSE "pyttsx3"

\* EmpathyEngine(tts_backend, use_hf) built on this machine
EmpathyEngine(tts_backend, use_hf, hf_available, load_ok, is_macos) ==
    [ detector |-> EmotionDetector(use_hf, hf_available, load_ok),
      backend  |-> TTSEngine(tts_backend, is_macos) ]

(* ------------------------------ state --------------------------------- *)
VARIABLES
    mapper,     \* the VoiceMapper instance under test
    mEmotion,   \* map's emotion argument
    mNum,       \* map's intensity argument, numerator
    mDen,       \*                           denominator
    mOut,       \* NoCall, or the VoiceParams map returned
    mExplained, \* NoCall, or the numbers in the text explain returned
    detector,   \* NotBuilt, or the EmotionDetector instance under test
    dCompound,  \* the compound score VADER gives the text
    dHf,        \* what the classifier does on the text
    dOut,       \* NoCall, Raised, or the EmotionResult detect returned
    isMac,      \* platform.system() == "Darwin" on the server's machine
    hfAvailable,\* HF_AVAILABLE: transformers could be imported
    gEngine,    \* app.py's global _engine: None, or the thread whose engine it holds
    engines,    \* the EmpathyEngine each thread has built, or NotBuilt
    initAttempts, \* how many times hf_pipeline(...) has been called
    received,   \* how many requests the server has received
    pc,         \* where each thread is in synthesize()
    loc,        \* each thread's local variables
    resp,       \* the response each thread sent last
    platform,   \* platform.system() where a TTSEngine is used alone
    tts,        \* that TTSEngine's self.backend
    calls,      \* how many times its synthesize has been called
    files,      \* the paths that hold a file
    generated,  \* the names synthesize has generated (tts_engine.py 71)
    last        \* NoCall, or the last synthesize call, what it returned and
                \* whether it wrote to a path that held a file (overwrote)
                \* or generated a name generated before (collided)

mapVars == <<mapper, mEmotion, mNum, mDen, mOut, mExplained>>
detVars == <<detector, dCompound, dHf, dOut>>
webVars == <<isMac, hfAvailable, gEngine, engines, initAttempts, received, pc, loc, resp>>
synthVars == <<platform, tts, calls, files, generated, last>>
vars == <<mapVars, detVars, webVars, synthVars>>

NoCall == [called |-> FALSE]

NotBuilt == [built |-> FALSE]

(* ------------------------ voice_mapper.py: explain --------------------- *)
\* The integers a fixed-point format may print for n/d: the nearest one,
\* and at an exact tie either neighbour, the binary float that stands for
\* n/d lying on one side of the tie or the other.
Nearest(n, d) ==
    { h \in {n \div d, (n \div d) + 1} : 2 * Abs(n - h * d) <= d }

\* VoiceMapper.explain(emotion, intensity) with intensity = num/den: the
\* numbers of the texts it may return.  rate is printed as the integer it
\* is; pitch, volume and the intensity argument with {:.2f}, here in
\* hundredths; the intensity argument also with {:.1%}, here in tenths of
\* a percent; the profile's entries are printed in full.
explain(self, emotion, num, den) ==
    LET params  == map(self, emotion, num, den)
        profile == Profile(emotion)
    IN  { [ rate       |-> params.rate,
            pitch      |-> pitch,
            volume     |-> volume,
            intensity  |-> intensity,
            percent    |-> percent,
            rate_delta |-> profile[1],
            pitch_mult |-> profile[2],
            vol_delta  |-> profile[3] ] :
            pitch \in Nearest(params.pitch, den),
            volume \in Nearest(params.volume, den),
            intensity \in Nearest(100 * num, den),
            percent \in Nearest(1000 * num, den) }

(* ---------------------- the mapper, called alone ---------------------- *)
\* emotion strings that are not keys of the profile table
UnknownEmotions == {"love", "", "JOY"}

\* baseline volumes a mapper may be constructed with (hundredths)
BaselineVolumes == {5, BASELINE_VOLUME, 100}

\* the detector's variables while the mapper is called alone
DetIdle ==
    /\ detector = NotBuilt
    /\ dCompound = 0
    /\ dHf = Raises
    /\ dOut = NoCall

\* the server's variables while the mapper or the detector is called alone
NoLocals ==
    [text |-> <<>>, backend |-> None, engine |-> None, emotion |-> None, rate |-> 0]
NoResponse == [status |-> 0]

SynthIdle ==
    /\ platform = "Linux"
    /\ tts = None
    /\ calls = 0
    /\ files = {}
    /\ generated = {}
    /\ last = NoCall

WebIdle ==
    /\ isMac = FALSE
    /\ hfAvailable = FALSE
    /\ gEngine = None
    /\ engines = [t \in Threads |-> NotBuilt]
    /\ initAttempts = 0
    /\ received = 0
    /\ pc = [t \in Threads |-> "idle"]
    /\ loc = [t \in Threads |-> NoLocals]
    /\ resp = [t \in Threads |-> NoResponse]

MapInit ==
    /\ SynthIdle
    /\ DetIdle
    /\ WebIdle
    /\ mapper \in { VoiceMapper(BASELINE_RATE, BASELINE_PITCH, v) : v \in BaselineVolumes }
    /\ mEmotion \in DOMAIN EMOTION_PROFILE \cup UnknownEmotions
    /\ mDen \in 1..MaxDen
    /\ mNum \in -1..(mDen + 1)
    /\ mOut = NoCall
    /\ mExplained = NoCall

MapCall ==
    /\ mOut = NoCall
    /\ mOut' = map(mapper, mEmotion, mNum, mDen)
    /\ UNCHANGED <<mapper, mEmotion, mNum, mDen, mExplained, detVars, webVars, synthVars>>

\* text = mapper.explain(emotion, intensity)
MapExplain ==
    /\ mExplained = NoCall
    /\ \E text \in explain(mapper, mEmotion, mNum, mDen) :
           mExplained' = [called |-> TRUE, text |-> text]
    /\ UNCHANGED <<mapper, mEmotion, mNum, mDen, mOut, detVars, webVars, synthVars>>

MapNext == MapCall \/ MapExplain

MapSpec == MapInit /\ [][MapNext]_vars

(* --------------------- the detector, called alone --------------------- *)
\* labels the classifier may put on top that the normalization table lacks
UnknownLabels == {"love"}

ClassifierLabels == DOMAIN HF_LABEL_MAP \cup UnknownLabels

\* the lists the classifier may return: two labels, scored 1 or 2
HfResults ==
    { [ raises  |-> FALSE,
        results |-> << [label |-> q[1], score |-> q[3]], [label |-> q[2], score |-> q[4]] >> ] :
        q \in { p \in ClassifierLabels \X ClassifierLabels \X {1, 2} \X {1, 2} :
                                p[1] # p[2] /\ p[3] + p[4] < 4 } }

\* the mapper's variables while the detector is called alone
MapIdle ==
    /\ mapper = DefaultMapper
    /\ mEmotion = "neutral"
    /\ mNum = 0
    /\ mDen = 1
    /\ mOut = NoCall
    /\ mExplained = NoCall

DetectInit ==
    /\ SynthIdle
    /\ MapIdle
    /\ WebIdle
    /\ detector = NotBuilt
    /\ dCompound \in -CompoundSteps..CompoundSteps
    /\ dHf \in HfResults \cup {Raises}
    /\ dOut = NoCall

\* EmotionDetector(use_hf)
DetectorInit ==
    /\ detector = NotBuilt
    /\ \E use_hf \in BOOLEAN, hf_available \in BOOLEAN, load_ok \in BOOLEAN :
           detector' = EmotionDetector(use_hf, hf_available, load_ok)
    /\ UNCHANGED <<dCompound, dHf, dOut, mapVars, webVars, synthVars>>

\* detector.detect(text)
DetectCall ==
    /\ detector # NotBuilt
    /\ dOut = NoCall
    /\ dOut' = detect(detector, dCompound, dHf)
    /\ UNCHANGED <<detector, dCompound, dHf, mapVars, webVars, synthVars>>

DetectNext == DetectorInit \/ DetectCall

DetectSpec == DetectInit /\ [][DetectNext]_vars

(* ------------------- the server: POST /synthesize --------------------- *)
\* the server stops taking requests after MaxRequests of them
MaxRequests == 2

\* what VADER and the classifier may make of a non-empty request text
WebCompounds == {CompoundSteps}

\* the responses carry no file name: one uuid and one ending of afconvert
\* stand for all
WebUuids == {<<"a1", "x">>}
WebConverts == {"ok"}
WebHf ==
    { Raises,
      [ raises  |-> FALSE,
        results |-> << [label |-> "anger", score |-> 2], [label |-> "joy", score |-> 1] >> ] }

Init ==
    /\ SynthIdle
    /\ MapIdle
    /\ DetIdle
    /\ isMac \in BOOLEAN
    /\ hfAvailable \in BOOLEAN
    /\ gEngine = None
    /\ engines = [t \in Threads |-> NotBuilt]
    /\ initAttempts = 0
    /\ received = 0
    /\ pc = [t \in Threads |-> "idle"]
    /\ loc = [t \in Threads |-> NoLocals]
    /\ resp = [t \in Threads |-> NoResponse]

\* return jsonify(...), status: the handler ends
Respond(t, response) ==
    /\ resp' = [resp EXCEPT ![t] = response]
    /\ pc' = [pc EXCEPT ![t] = "idle"]
    /\ loc' = [loc EXCEPT ![t] = NoLocals]

\* app.py 53-54: jsonify({"error": ...}), 400; text is what data.get("text", "")
\* gave
Rejected(text) ==
    [ status |-> 400, error |-> "Please provide some text.", text |-> text ]

\* the response after tts.synthesize took the branch of backend `by`:
\* app.py 65-66 when the branch raised, 69-72 when it returned a path
Synthesized(t, by, result) ==
    [ status    |-> IF result.ok THEN 200 ELSE 500,
      error     |-> result.error,
      audio_url |-> result.ok,
      text      |-> loc[t].text,
      asked     |-> loc[t].backend,
      by        |-> by,
      via       |-> result.via,
      emotion   |-> loc[t].emotion,
      rate      |-> loc[t].rate ]

\* app.py 65-66: engine.process raised before any backend ran
Failed(t, error) ==
    [ status    |-> 500,
      error     |-> error,
      audio_url |-> FALSE,
      text      |-> loc[t].text,
      asked     |-> loc[t].backend,
      by        |-> None,
      via       |-> None,
      emotion   |-> loc[t].emotion,
      rate      |-> loc[t].rate ]

\* app.py 50-57: read the body; 400 on empty text, else note the engine
Receive(t) ==
    /\ pc[t] = "idle"
    /\ received < MaxRequests
    /\ received' = received + 1
    /\ \E data \in Requests :
           IF RequestText(data) = <<>>
           THEN /\ resp' = [resp EXCEPT ![t] =
                               Rejected(IF "text" \in DOMAIN data THEN data.text ELSE <<>>)]
                /\ UNCHANGED <<pc, loc>>
           ELSE /\ resp' = [resp EXCEPT ![t] = NoResponse]
                /\ loc' = [loc EXCEPT ![t].text = RequestText(data),
                                      ![t].backend = RequestEngine(data)]
                /\ pc' = [pc EXCEPT ![t] = "get_engine"]
    /\ UNCHANGED <<isMac, hfAvailable, gEngine, engines, initAttempts, mapVars, detVars, synthVars>>

\* app.py 33-34: if _engine is None, build EmpathyEngine("auto", True)
GetEngine(t) ==
    /\ pc[t] = "get_engine"
    /\ IF gEngine = None
       THEN /\ \E load_ok \in BOOLEAN :
                  engines' = [engines EXCEPT ![t] =
                                 EmpathyEngine("auto", TRUE, hfAvailable, load_ok, isMac)]
            /\ initAttempts' = initAttempts + (IF hfAvailable THEN 1 ELSE 0)
            /\ pc' = [pc EXCEPT ![t] = "publish"]
       ELSE /\ pc' = [pc EXCEPT ![t] = "return_engine"]
            /\ UNCHANGED <<engines, initAttempts>>
    /\ UNCHANGED <<isMac, hfAvailable, gEngine, received, loc, resp, mapVars, detVars, synthVars>>

\* app.py 34: _engine = <the engine just built>
Publish(t) ==
    /\ pc[t] = "publish"
    /\ gEngine' = t
    /\ pc' = [pc EXCEPT ![t] = "return_engine"]
    /\ UNCHANGED <<isMac, hfAvailable, engines, initAttempts, received, loc, resp,
                   mapVars, detVars, synthVars>>

\* app.py 35, 58: engine = <what _engine holds now>
ReturnEngine(t) ==
    /\ pc[t] = "return_engine"
    /\ loc' = [loc EXCEPT ![t].engine = gEngine]
    /\ pc' = [pc EXCEPT ![t] = "set_backend"]
    /\ UNCHANGED <<isMac, hfAvailable, gEngine, engines, initAttempts, received, resp,
                   mapVars, detVars, synthVars>>

\* app.py 61: engine.tts.backend = backend
SetBackend(t) ==
    /\ pc[t] = "set_backend"
    /\ engines' = [engines EXCEPT ![loc[t].engine].backend = loc[t].backend]
    /\ pc' = [pc EXCEPT ![t] = "process"]
    /\ UNCHANGED <<isMac, hfAvailable, gEngine, initAttempts, received, loc, resp,
                   mapVars, detVars, synthVars>>

\* engine.py 55-64: detect and map; an exception of detect ends in 500
Process(t) ==
    /\ pc[t] = "process"
    /\ \E compound \in WebCompounds, hf \in WebHf :
           LET engine  == engines[loc[t].engine]
               emotion == detect(engine.detector, compound, hf)
           IN  IF emotion = Raised
               THEN Respond(t, Failed(t, "detect raised"))
               ELSE /\ loc' = [loc EXCEPT
                               ![t].emotion = emotion.primary_emotion,
                               ![t].rate = map(DefaultMapper, emotion.primary_emotion,
                                               emotion.intensity,
                                               10 * CompoundSteps).rate]
                    /\ pc' = [pc EXCEPT ![t] = "dispatch_macos_say"]
                    /\ UNCHANGED resp
    /\ UNCHANGED <<isMac, hfAvailable, gEngine, engines, initAttempts, received,
                   mapVars, detVars, synthVars>>

\* tts_engine.py 73-74: if self.backend == "macos_say"
DispatchMacosSay(t) ==
    /\ pc[t] = "dispatch_macos_say"
    /\ IF engines[loc[t].engine].backend = "macos_say"
       THEN \E say \in Outcomes, convert \in WebConverts, uuid \in WebUuids :
                Respond(t, Synthesized(t, "macos_say",
                           synthesize_macos_say(say, convert,
                                                Generated(uuid, Ext("macos_say")))))
       ELSE /\ pc' = [pc EXCEPT ![t] = "dispatch_pyttsx3"]
            /\ UNCHANGED <<loc, resp>>
    /\ UNCHANGED <<isMac, hfAvailable, gEngine, engines, initAttempts, received,
                   mapVars, detVars, synthVars>>

\* tts_engine.py 75-76: elif self.backend == "pyttsx3"
DispatchPyttsx3(t) ==
    /\ pc[t] = "dispatch_pyttsx3"
    /\ IF engines[loc[t].engine].backend = "pyttsx3"
       THEN \E sub \in Outcomes, say \in Outcomes, convert \in WebConverts,
                uuid \in WebUuids :
                Respond(t, Synthesized(t, "pyttsx3",
                           synthesize_pyttsx3(sub, say, convert, isMac,
                                              Generated(uuid, Ext("pyttsx3")))))
       ELSE /\ pc' = [pc EXCEPT ![t] = "dispatch_gtts"]
            /\ UNCHANGED <<loc, resp>>
    /\ UNCHANGED <<isMac, hfAvailable, gEngine, engines, initAttempts, received,
                   mapVars, detVars, synthVars>>

\* tts_engine.py 77-80: elif self.backend == "gtts"; else ValueError
DispatchGtts(t) ==
    /\ pc[t] = "dispatch_gtts"
    /\ IF engines[loc[t].engine].backend = "gtts"
       THEN \E cloud \in {"ok", "fails"}, uuid \in WebUuids :
                Respond(t, Synthesized(t, "gtts",
                           synthesize_gtts(cloud, Generated(uuid, Ext("gtts")))))
       ELSE Respond(t, Failed(t, "ValueError: Unknown TTS backend"))
    /\ UNCHANGED <<isMac, hfAvailable, gEngine, engines, initAttempts, received,
                   mapVars, detVars, synthVars>>

Next ==
    \E t \in Threads :
        \/ Receive(t)
        \/ GetEngine(t)
        \/ Publish(t)
        \/ ReturnEngine(t)
        \/ SetBackend(t)
        \/ Process(t)
        \/ DispatchMacosSay(t)
        \/ DispatchPyttsx3(t)
        \/ DispatchGtts(t)

Spec == Init /\ [][Next]_vars

(* ----------------------- the TTSEngine, used alone --------------------- *)
\* synthesize is called at most MaxCalls times on the engine
MaxCalls == 2

\* the backend argument of TTSEngine(...): the CLI's choices, the names of
\* the backends in other spellings, and a name that is no backend
BackendArgs == {"auto", "pyttsx3", "gtts", "macos_say", "GTTS", "espeak"}

\* the output_path a caller may pass: "out.wav", "out", "out.aiff"
CallerPaths ==
    { [stem |-> <<"out">>, exts |-> <<"wav">>],
      [stem |-> <<"out">>, exts |-> <<>>],
      [stem |-> <<"out">>, exts |-> <<"aiff">>] }

IsMacos == platform = "Darwin"

\* tts = TTSEngine(backend), on either kind of machine
SynthInit ==
    /\ MapIdle
    /\ DetIdle
    /\ WebIdle
    /\ platform \in {"Darwin", "Linux"}
    /\ \E backend \in BackendArgs : tts = TTSEngine(backend, IsMacos)
    /\ calls = 0
    /\ files = {}
    /\ generated = {}
    /\ last = NoCall

\* tts.synthesize(text, params, output_path): uuid4() is called when no
\* output_path is given
SynthCall ==
    /\ calls < MaxCalls
    /\ \E output_path \in CallerPaths \cup {NoPath}, uuid \in Uuids, env \in Environments :
           LET result == synthesize(tts, output_path, uuid, env, IsMacos)
               name   == IF output_path = NoPath
                         THEN {Generated(uuid, Ext(tts))}
                         ELSE {}
           IN  /\ last' = [ called      |-> TRUE,
                            output_path |-> output_path,
                            sub         |-> env.sub,
                            say         |-> env.say,
                            result      |-> result,
                            overwrote   |-> result.written \cap files # {},
                            collided    |-> name \cap generated # {} ]
               /\ generated' = generated \cup name
               /\ files' = (files \cup result.written) \ result.removed
    /\ calls' = calls + 1
    /\ UNCHANGED <<platform, tts, mapVars, detVars, webVars>>

SynthNext == SynthCall

SynthSpec == SynthInit /\ [][SynthNext]_vars

(* --------------------------- claims: mapper --------------------------- *)
\* the intensity map works with: the argument clamped into [0,1]
Clamped == ClampIntensity(mNum, mDen)

\* C2: for an emotion that is not a key of the profile table, map returns
\* exactly what it returns for "neutral" at the same intensity, which is the
\* mapper's baseline triple (rate and pitch unchanged, volume the clamped
\* baseline volume); the call always returns a VoiceParams.
C2_UnknownEmotionIsNeutral ==
    (mOut # NoCall /\ mEmotion \notin DOMAIN EMOTION_PROFILE) =>
        /\ mOut = map(mapper, "neutral", mNum, mDen)
        /\ mOut.rate = mapper.baseline_rate
        /\ mOut.pitch * 100 = mapper.baseline_pitch * mOut.den
        /\ \/ mOut.volume * 100 = mapper.baseline_volume * mOut.den
           \/ /\ mapper.baseline_volume < 10
              /\ mOut.volume * 10 = mOut.den

C2_Witness ==
    /\ mOut # NoCall
    /\ mEmotion = "love"
    /\ mNum = mDen
    /\ mOut.rate = 200

\* C4: the volume map returns lies in [0.1, 1.0], for every emotion, every
\* intensity and every baseline volume the mapper was built with.
C4_VolumeInRange ==
    mOut # NoCall =>
        /\ mOut.den <= 10 * mOut.volume
        /\ mOut.volume <= mOut.den

\* a call in which the floor of the clamp decides the result
C4_Witness ==
    /\ mOut # NoCall
    /\ mEmotion = "sadness"
    /\ 0 < mNum /\ mNum <= mDen
    /\ mapper.baseline_volume * mDen + EMOTION_PROFILE["sadness"][3] * mNum < 10 * mDen
    /\ mOut.volume * 10 = mOut.den

\* C5: for a known emotion, rate is baselineRate (200) at intensity 0,
\* baselineRate + rateDelta at intensity 1, and in between the integer part
\* of baselineRate + rateDelta * intensity: rate <= exact value < rate + 1.
C5_RateBoundaryExact ==
    (mOut # NoCall /\ mEmotion \in DOMAIN EMOTION_PROFILE /\ 0 <= mNum /\ mNum <= mDen) =>
        LET delta == EMOTION_PROFILE[mEmotion][1]
            exact == 200 * mDen + delta * mNum      \* over mDen
        IN  /\ mNum = 0 => mOut.rate = 200
            /\ mNum = mDen => mOut.rate = 200 + delta
            /\ mOut.rate * mDen <= exact
            /\ exact < (mOut.rate + 1) * mDen

\* an intermediate intensity at which truncation drops a fraction of 1/2 or more
C5_Witness ==
    /\ mOut # NoCall
    /\ mEmotion = "sadness"
    /\ 0 < mNum /\ mNum < mDen
    /\ 2 * (200 * mDen - 50 * mNum - mOut.rate * mDen) >= mDen

\* C6: pitch moves from the baseline toward the absolute target multiplier
\* in proportion to the clamped intensity i:
\* (pitch - 1.0) = (pitchTarget - 1.0) * i; so it is 1.0 at i = 0, the
\* target at i = 1, and 1.175 for joy at i = 0.5.
C6_PitchTowardTarget ==
    (mOut # NoCall) =>
        LET target == Profile(mEmotion)[2]
        IN  /\ (mOut.pitch - mOut.den) * 100 * mDen = (target - 100) * Clamped * mOut.den
            /\ Clamped = 0 => mOut.pitch = mOut.den
            /\ Clamped = mDen => mOut.pitch * 100 = target * mOut.den
            /\ (mEmotion = "joy" /\ 2 * mNum = mDen) => mOut.pitch * 1000 = 1175 * mOut.den

C6_Witness ==
    /\ mOut # NoCall
    /\ mEmotion = "joy"
    /\ 2 * mNum = mDen
    /\ mOut.pitch * 1000 = 1175 * mOut.den

(* -------------------------- claims: detector -------------------------- *)
\* detect was called and returned an EmotionResult
Returned == dOut # NoCall /\ dOut # Raised

C7_IntensityFormula ==
    Returned =>
        LET one == 10 * CompoundSteps
            mag == IF dCompound < 0 THEN -dCompound ELSE dCompound
        IN  /\ 0 <= dOut.intensity /\ dOut.intensity <= one
            /\ 12 * mag <= one => dOut.intensity = 12 * mag
            /\ 12 * mag >= one => dOut.intensity = one
            /\ \A c \in -mag..mag : compute_intensity(c) <= dOut.intensity
            /\ 2 * dCompound = CompoundSteps => 10 * dOut.intensity = 6 * one
            /\ dCompound = -CompoundSteps => dOut.intensity = one
            /\ dCompound = 0 => dOut.intensity = 0

\* compound -1.0 with a classifier configured
C7_Witness ==
    /\ Returned
    /\ detector.hf_classifier # None
    /\ dCompound = -CompoundSteps
    /\ dOut.intensity = 10 * CompoundSteps

\* C8: without a classifier, compound >= 0.05 gives joy, compound <= -0.05
\* gives sadness, anything between gives neutral; granularLabel equals
\* primaryEmotion and the fine scores are empty.
C8_PolarityBuckets ==
    (Returned /\ detector.hf_classifier = None) =>
        /\ 100 * dCompound >= 5 * CompoundSteps => dOut.primary_emotion = "joy"
        /\ 100 * dCompound <= -5 * CompoundSteps => dOut.primary_emotion = "sadness"
        /\ (-5 * CompoundSteps < 100 * dCompound /\ 100 * dCompound < 5 * CompoundSteps)
               => dOut.primary_emotion = "neutral"
        /\ dOut.granular_label = dOut.primary_emotion
        /\ dOut.hf_scores = {}

\* compound exactly 0.05, no classifier
C8_Witness ==
    /\ Returned
    /\ detector.hf_classifier = None
    /\ 100 * dCompound = 5 * CompoundSteps
    /\ dOut.primary_emotion = "joy"

\* C9, as the spec states it: detect never raises; when the classifier
\* throws, detect returns the polarity-only result.
C9_DetectNeverRaises ==
    dOut # NoCall =>
        /\ dOut # Raised
        /\ (detector.hf_classifier # None /\ dHf.raises) =>
               /\ dOut.primary_emotion = VADER_POLARITY_MAP[vader_polarity(dCompound)]
               /\ dOut.granular_label = dOut.primary_emotion

(* --------------------------- claims: server --------------------------- *)
\* C1, as the spec states it: every request that reaches synthesis is
\* dispatched to the backend that this request itself named (or "pyttsx3",
\* the endpoint's default), whatever other requests run at the same time.
C1_OwnBackendPerRequest ==
    \A t \in Threads :
        (resp[t].status \in {200, 500} /\ resp[t].by # None) =>
            resp[t].by = resp[t].asked

\* C10, as the spec states it: within one server process hf_pipeline(...) is
\* called at most once, and once a load has failed no engine ever holds a
\* loaded classifier.
C10_ClassifierInitAtMostOnce ==
    /\ initAttempts <= 1
    /\ \A a \in Threads, b \in Threads :
           ( /\ engines[a] # NotBuilt
             /\ engines[a].detector.attempted
             /\ engines[a].detector.hf_classifier = None
             /\ engines[b] # NotBuilt )
               => engines[b].detector.hf_classifier = None

(* ------------------------- claims: tts engine ------------------------- *)
\* C11: a synthesize call dispatched to pyttsx3 runs the pyttsx3
\* subprocess once.  If it times out on macOS the say command is run
\* exactly once, and when say succeeds the call returns the path of the
\* file the native backend left; if it times out elsewhere the call ends
\* in the RuntimeError "pyttsx3 timed out" and say is not run.  A
\* subprocess that ends otherwise, well or badly, never leads to say.
C11_TimeoutFallsBackOnce ==
    (last.called /\ tts = "pyttsx3") =>
        LET r == last.result
        IN  /\ r.sub_runs = 1
            /\ r.say_runs <= 1
            /\ (last.sub = "timeout" /\ IsMacos) =>
                   /\ r.say_runs = 1
                   /\ r.ok <=> last.say = "ok"
                   /\ r.ok => /\ r.via = "macos_say"
                              /\ r.path \in r.written \ r.removed
            /\ (last.sub = "timeout" /\ ~IsMacos) =>
                   /\ ~r.ok
                   /\ r.error = "RuntimeError: pyttsx3 timed out"
                   /\ r.say_runs = 0
            /\ last.sub = "fails" => (~r.ok /\ r.say_runs = 0)
            /\ last.sub = "ok" => (r.ok /\ r.via = "pyttsx3" /\ r.say_runs = 0)

\* the pyttsx3 subprocess timed out on macOS and say produced the audio
C11_Witness ==
    /\ last.called
    /\ tts = "pyttsx3"
    /\ last.sub = "timeout"
    /\ IsMacos
    /\ last.result.ok
    /\ last.result.via = "macos_say"
    /\ last.result.say_runs = 1

\* C12: a synthesize call that produces its audio never writes to a path
\* that already holds a file of an earlier call, and so returns a path no
\* earlier call has written, whatever the backend and whether the caller
\* gave an output path or not (the 8-digit uuid prefixes of two generated
\* names being taken never to coincide).
C12_NeverOverwrites ==
    (last.called /\ last.result.ok /\ ~last.collided) => ~last.overwrote

(* --------------------------- claims: web app --------------------------- *)
\* C13: a request whose engine field is "auto" and whose handling reached
\* tts.synthesize is dispatched to the macos_say backend on macOS and to
\* the pyttsx3 backend elsewhere, and does not end in the ValueError
\* "Unknown TTS backend".
C13_AutoIsDispatched ==
    \A t \in Threads :
        ( /\ resp[t].status \in {200, 500}
          /\ resp[t].asked = "auto"
          /\ resp[t].error # "detect raised" )
            => /\ resp[t].by = TTSEngine("auto", isMac)
               /\ resp[t].error # "ValueError: Unknown TTS backend"

\* a text with nothing in it but whitespace
Blank(text) == \A i \in 1..Len(text) : text[i] \in Whitespace

\* C14: only a request whose text is missing, empty or whitespace is
\* answered 400, and no such request gets past the check: a thread inside
\* the handler, and every 200 or 500 response, has a text that is not
\* blank.  The step that rejects a request changes neither the global
\* engine, nor any engine or its backend, nor the classifier loads, nor any
\* thread's position or locals.  A 500 response carries the error of the
\* exception process raised and no audio URL; a 200 response carries an
\* audio URL and comes only from a backend that returned a path.
C14_RejectsBlankAndReportsErrors ==
    /\ [](\A t \in Threads :
            /\ resp[t].status = 400 => Blank(resp[t].text)
            /\ pc[t] # "idle" => ~Blank(loc[t].text)
            /\ resp[t].status \in {200, 500} => ~Blank(resp[t].text)
            /\ resp[t].status = 500 => (resp[t].error # None /\ ~resp[t].audio_url)
            /\ resp[t].status = 200 =>
                   /\ resp[t].audio_url
                   /\ resp[t].error = None
                   /\ resp[t].via \in {"macos_say", "pyttsx3", "gtts"}
                   /\ resp[t].emotion # None)
    /\ [][ (received' # received /\ pc' = pc) =>
               /\ \E t \in Threads : resp'[t].status = 400
               /\ UNCHANGED <<gEngine, engines, initAttempts, loc>> ]_vars

\* one request with a whitespace text was answered 400 and another, whose
\* detection raised, 500
C14_Witness ==
    \E t \in Threads, u \in Threads :
        /\ resp[t].status = 400
        /\ resp[t].text = <<" ", "\t">>
        /\ resp[u].status = 500
        /\ resp[u].error = "detect raised"

(* ------------------------- claims: explain ---------------------------- *)
\* C15: the numbers in the text of explain(emotion, intensity) are the
\* values map(emotion, intensity) works with and returns: the rate, the
\* pitch and the volume read back from the text are map's rate, pitch and
\* volume, and the intensity shown as the scaling factor is the clamped
\* intensity map scales by.
C15_ExplainMatchesMap ==
    mExplained.called =>
        LET params == map(mapper, mEmotion, mNum, mDen)
            text   == mExplained.text
        IN  /\ text.rate = params.rate
            /\ text.pitch * params.den = params.pitch * 100
            /\ text.volume * params.den = params.volume * 100
            /\ text.intensity * mDen = 100 * Clamped

====
